---- MODULE Spec2Model ----
(***************************************************************************)
(* The quotes function (netlify/functions/quotes/src/main.rs): one lambda  *)
(* handler that maps an API-gateway request to one statement against the   *)
(* quotes table.  The table, the handler's dispatch, the text of the       *)
(* UPDATE statement that update_quote builds and the server's reading of   *)
(* that text are modelled; storage is assumed reachable (get_db_client     *)
(* succeeds and no statement fails for a reason other than its own text).  *)
(***************************************************************************)
EXTENDS Integers, Sequences, FiniteSets, TLC

VARIABLES
    table,      \* the quotes table: rowid -> [quote, characters, stardate, episode]
    nextId,     \* the next rowid the storage assigns on insert
    inv,        \* the invocations: each one's position and handler locals
    posted,     \* history: rowid -> the payload its POST supplied, while no PUT/DELETE hit it
    deleted,    \* history: rowid -> how many DELETEs have completed on it (1 or 2)
    initial     \* history: the table at the start

vars == <<table, nextId, inv, posted, deleted, initial>>

(* ------------------------------ bounds -------------------------------- *)
MaxId == 1          \* the rowids the storage hands out in Spec and SpecHistory
ListMaxEpisode == 2 \* episodes 1..ListMaxEpisode in SpecList
ListExtra == 1      \* SpecList tables hold up to Limit + ListExtra rows

(* --------------------------- Option<T> -------------------------------- *)
None == <<>>
Some(v) == <<v>>

(* ------------------------- text and numbers --------------------------- *)
DigitChars == <<"0", "1", "2", "3", "4", "5", "6", "7", "8", "9">>

IsDigit(c) == \E d \in 1..10 : DigitChars[d] = c

DigitVal(c) == (CHOOSE d \in 1..10 : DigitChars[d] = c) - 1

\* Display of an unsigned magnitude.
RECURSIVE FmtNat(_)
FmtNat(n) ==
    IF n < 10 THEN <<DigitChars[n + 1]>>
    ELSE FmtNat(n \div 10) \o <<DigitChars[(n % 10) + 1]>>

\* format!("{}", q) of an i64.
FmtInt(n) == IF n < 0 THEN <<"-">> \o FmtNat(-n) ELSE FmtNat(n)

\* A Decimal is a mantissa m and a scale s (0 or 1 here): m / 10^s.
Dec(m, s) == [m |-> m, s |-> s]

\* format!("{}", q) of a Decimal.
FmtDecimal(d) ==
    IF d.s = 0 THEN FmtInt(d.m)
    ELSE (IF d.m < 0 THEN <<"-">> ELSE <<>>)
         \o FmtNat((IF d.m < 0 THEN -d.m ELSE d.m) \div 10)
         \o <<".">>
         \o <<DigitChars[((IF d.m < 0 THEN -d.m ELSE d.m) % 10) + 1]>>

RECURSIVE DigitsVal(_, _)
DigitsVal(s, acc) ==
    IF s = <<>> THEN acc ELSE DigitsVal(Tail(s), acc * 10 + DigitVal(Head(s)))

AllDigits(s) == s # <<>> /\ \A k \in 1..Len(s) : IsDigit(s[k])

\* str::parse::<i64>: an optional sign, then digits only.
ParseI64(s) ==
    IF s # <<>> /\ s[1] = "-" THEN
        IF AllDigits(Tail(s)) THEN Some(-DigitsVal(Tail(s), 0)) ELSE None
    ELSE IF s # <<>> /\ s[1] = "+" THEN
        IF AllDigits(Tail(s)) THEN Some(DigitsVal(Tail(s), 0)) ELSE None
    ELSE IF AllDigits(s) THEN Some(DigitsVal(s, 0)) ELSE None

(* ------------------------------ Quote --------------------------------- *)
Columns == {"quote", "characters", "stardate", "episode"}

Quote(rowid, quote, characters, stardate, episode) ==
    [rowid |-> rowid, quote |-> quote, characters |-> characters,
     stardate |-> stardate, episode |-> episode]

\* The Quote a result row is read into (row.get(0..4)).
QuoteOfRow(id, row) ==
    Quote(Some(id), row.quote, row.characters, row.stardate, row.episode)

\* serde's view of a Quote: rowid goes out through DisplayFromStr.
QuoteJson(q) ==
    [rowid |-> IF q.rowid = None THEN None ELSE Some(FmtInt(q.rowid[1])),
     quote |-> q.quote, characters |-> q.characters,
     stardate |-> q.stardate, episode |-> q.episode]

\* serde_json::to_string of an Option<Quote> and of a Vec<Quote>.
JsonOfOption(o) ==
    IF o = None THEN [json |-> "null"]
    ELSE [json |-> "object", v |-> QuoteJson(o[1])]

JsonOfVec(qs) ==
    [json |-> "array", v |-> [k \in 1..Len(qs) |-> QuoteJson(qs[k])]]

(* ---------------------------- responses ------------------------------- *)
BodyEmpty == [t |-> "Empty"]
BodyText(s) == [t |-> "Text", s |-> s]
Plain(s) == [plain |-> s]

Response(status, body) == [kind |-> "Ok", status |-> status, body |-> body]
Fatal(err) == [kind |-> "Err", err |-> err]

(* ------------------ the statement update_quote builds ------------------ *)
\* The text of a statement is a sequence of pieces: each piece is one
\* character of a value, or one fixed fragment of the builder (a fragment
\* holds no quote character, so the server's lexer never splits one).
SqlUpdate == "UPDATE quotes SET "
SqlWhere == " WHERE rowid="
SqlReturning == " RETURNING rowid, quote, characters, stardate, episode;"
SqlComma == ", "

\* cols.join(", ")
RECURSIVE Join(_)
Join(cols) ==
    IF cols = <<>> THEN <<>>
    ELSE IF Len(cols) = 1 THEN cols[1]
    ELSE cols[1] \o <<SqlComma>> \o Join(Tail(cols))

\* The cols vector: one format!() per field that is Some, in the code's order.
UpdateCols(quote) ==
    (IF quote.quote # None
        THEN << <<"quote=", "'">> \o quote.quote[1] \o <<"'">> >> ELSE <<>>)
    \o (IF quote.characters # None
        THEN << <<"characters=", "'">> \o quote.characters[1] \o <<"'">> >> ELSE <<>>)
    \o (IF quote.episode # None
        THEN << <<"episode=">> \o FmtInt(quote.episode[1]) >> ELSE <<>>)
    \o (IF quote.stardate # None
        THEN << <<"stardate=">> \o FmtDecimal(quote.stardate[1]) >> ELSE <<>>)

\* builder.string(): the whole statement text.
UpdateSql(rowid, quote) ==
    <<SqlUpdate>> \o Join(UpdateCols(quote)) \o <<SqlWhere>> \o FmtInt(rowid)
    \o <<SqlReturning>>

(* ---------------- the server's reading of that text -------------------- *)
\* A string literal from p, the piece after its opening quote: a doubled
\* quote is one quote of the value, a single one ends the literal, and the
\* end of the text inside a literal is a syntax error.
RECURSIVE ScanString(_, _, _)
ScanString(sql, p, acc) ==
    IF p > Len(sql) THEN [ok |-> FALSE, val |-> acc, next |-> p]
    ELSE IF sql[p] = "'" THEN
        IF p + 1 <= Len(sql) /\ sql[p + 1] = "'"
        THEN ScanString(sql, p + 2, Append(acc, "'"))
        ELSE [ok |-> TRUE, val |-> acc, next |-> p + 1]
    ELSE ScanString(sql, p + 1, Append(acc, sql[p]))

\* The first position from p that holds no digit.
RECURSIVE DigitsEnd(_, _)
DigitsEnd(sql, p) ==
    IF p <= Len(sql) /\ IsDigit(sql[p]) THEN DigitsEnd(sql, p + 1) ELSE p

RECURSIVE Pow10(_)
Pow10(n) == IF n = 0 THEN 1 ELSE 10 * Pow10(n - 1)

\* A numeric constant from p: [-] digits [. digits].
ScanNumber(sql, p) ==
    LET neg == p <= Len(sql) /\ sql[p] = "-"
        p1 == IF neg THEN p + 1 ELSE p
        p2 == DigitsEnd(sql, p1)
        dot == p2 <= Len(sql) /\ sql[p2] = "."
        p3 == IF dot THEN DigitsEnd(sql, p2 + 1) ELSE p2
        scale == IF dot THEN p3 - (p2 + 1) ELSE 0
        whole == DigitsVal(SubSeq(sql, p1, p2 - 1), 0)
        frac == IF dot THEN DigitsVal(SubSeq(sql, p2 + 1, p3 - 1), 0) ELSE 0
        mag == whole * Pow10(scale) + frac
    IN  IF p2 = p1 \/ (dot /\ p3 = p2 + 1)
        THEN [ok |-> FALSE, val |-> Dec(0, 0), next |-> p]
        ELSE [ok |-> TRUE, val |-> Dec(IF neg THEN -mag ELSE mag, scale), next |-> p3]

NoSets == [c \in Columns |-> None]

SyntaxError == [ok |-> FALSE]

\* The tail of the statement: WHERE rowid=<integer> RETURNING ...; and no more.
ParseWhere(sql, p, sets) ==
    LET n == ScanNumber(sql, p + 1)
    IN  IF p > Len(sql) \/ sql[p] # SqlWhere THEN SyntaxError
        ELSE IF ~n.ok \/ n.val.s # 0 THEN SyntaxError
        ELSE IF n.next # Len(sql) \/ sql[n.next] # SqlReturning THEN SyntaxError
        ELSE [ok |-> TRUE, op |-> "update", sets |-> sets, id |-> n.val.m]

\* The SET list from p: column = constant, separated by commas.
RECURSIVE ParseSet(_, _, _)
ParseSet(sql, p, sets) ==
    LET col == IF p > Len(sql) THEN "" ELSE sql[p]
        name == CASE col = "quote=" -> "quote"
                  [] col = "characters=" -> "characters"
                  [] col = "episode=" -> "episode"
                  [] col = "stardate=" -> "stardate"
                  [] OTHER -> ""
        isText == name \in {"quote", "characters"}
        str == IF isText /\ p + 1 <= Len(sql) /\ sql[p + 1] = "'"
               THEN ScanString(sql, p + 2, <<>>)
               ELSE [ok |-> FALSE, val |-> <<>>, next |-> p]
        num == IF isText THEN [ok |-> FALSE, val |-> Dec(0, 0), next |-> p]
               ELSE ScanNumber(sql, p + 1)
        ok == name # "" /\ sets[name] = None
              /\ (IF isText THEN str.ok
                  ELSE num.ok /\ (name = "episode" => num.val.s = 0))
        next == IF isText THEN str.next ELSE num.next
        val == IF isText THEN str.val
               ELSE IF name = "episode" THEN num.val.m ELSE num.val
        sets2 == [sets EXCEPT ![name] = Some(val)]
    IN  IF ~ok THEN SyntaxError
        ELSE IF next <= Len(sql) /\ sql[next] = SqlComma
        THEN ParseSet(sql, next + 1, sets2)
        ELSE ParseWhere(sql, next, sets2)

\* client.prepare(sql): the statement the server makes of the text, or a
\* syntax error.
ParseUpdate(sql) ==
    IF sql = <<>> \/ sql[1] # SqlUpdate THEN SyntaxError
    ELSE ParseSet(sql, 2, NoSets)

(* ----------------------------- storage -------------------------------- *)
\* The fixed row limit of the list query.
Limit == 20

RowOf(q) ==
    [quote |-> q.quote, characters |-> q.characters,
     stardate |-> q.stardate, episode |-> q.episode]

\* InsertRow, were the second and first parameters bound the wrong way round.
InsertRowSwapped(tbl, id, q) ==
    [k \in DOMAIN tbl \cup {id} |->
        IF k = id THEN [RowOf(q) EXCEPT !.quote = q.characters,
                                        !.characters = q.quote]
        ELSE tbl[k]]

\* INSERT INTO quotes (...) VALUES ($1, $2, $3, $4): the bound values are
\* stored as they are, under the rowid the storage assigns.
InsertRow(tbl, id, q) ==
    [k \in DOMAIN tbl \cup {id} |-> IF k = id THEN RowOf(q) ELSE tbl[k]]

\* UPDATE quotes SET ... WHERE rowid=id: the assigned columns of that row.
UpdateRow(tbl, stmt) ==
    IF stmt.id \notin DOMAIN tbl THEN tbl
    ELSE [tbl EXCEPT ![stmt.id] =
            [c \in Columns |->
                IF stmt.sets[c] # None THEN stmt.sets[c] ELSE tbl[stmt.id][c]]]

\* DELETE FROM quotes WHERE rowid = $1
DeleteRow(tbl, id) == [k \in DOMAIN tbl \ {id} |-> tbl[k]]

\* The number of rows that DELETE affects (what client.execute returns).
DeleteCount(tbl, id) == IF id \in DOMAIN tbl THEN 1 ELSE 0

\* SELECT ... WHERE rowid=$1 through query_opt: the row as a Quote, or None.
SelectOne(tbl, id) ==
    IF id \in DOMAIN tbl THEN Some(QuoteOfRow(id, tbl[id])) ELSE None

\* ORDER BY episode asc: NULL sorts first, and the order of rows of one
\* episode is the storage's choice (tie: by rowid upwards or downwards).
TieBreaks == {"up", "down"}

EpisodeBefore(x, y) ==
    (x = None /\ y # None) \/ (x # None /\ y # None /\ x[1] < y[1])

RowBefore(tbl, a, b, tie) ==
    \/ EpisodeBefore(tbl[a].episode, tbl[b].episode)
    \/ /\ tbl[a].episode = tbl[b].episode
       /\ IF tie = "up" THEN a < b ELSE a > b

RECURSIVE OrderByEpisode(_, _, _)
OrderByEpisode(tbl, ids, tie) ==
    IF ids = {} THEN <<>>
    ELSE LET first == CHOOSE a \in ids :
                          \A b \in ids \ {a} : RowBefore(tbl, a, b, tie)
         IN  <<first>> \o OrderByEpisode(tbl, ids \ {first}, tie)

\* SelectAll, were the statement without its LIMIT.
SelectAllUnlimited(tbl, tie) ==
    LET ids == OrderByEpisode(tbl, DOMAIN tbl, tie)
    IN  [k \in 1..Len(ids) |-> QuoteOfRow(ids[k], tbl[ids[k]])]

\* SELECT ... FROM quotes ORDER BY episode asc LIMIT 20, read into a Vec<Quote>.
SelectAll(tbl, tie) ==
    LET ids == OrderByEpisode(tbl, DOMAIN tbl, tie)
        n == IF Len(ids) < Limit THEN Len(ids) ELSE Limit
    IN  [k \in 1..n |-> QuoteOfRow(ids[k], tbl[ids[k]])]

(* ------------------------ the handler's dispatch ----------------------- *)
\* An invocation: its position, the request's method and rowid parameter,
\* the handler's locals (the parsed Quote, the statement in flight), what
\* it returned, and how many calls it has made on the client.
Idle ==
    [pc |-> "idle", method |-> "", rowid |-> None, body |-> "", quote |-> None,
     stmt |-> None, result |-> None, issued |-> 0]

\* What event.body is: absent, text that is no Quote, or a Quote's JSON.
BodyKind(req) ==
    IF req.body = None THEN "absent"
    ELSE IF req.body[1].valid THEN "json" ELSE "malformed"

Returned(req, result) ==
    [pc |-> "done", method |-> req.method, rowid |-> req.rowid,
     body |-> BodyKind(req), quote |-> None,
     stmt |-> None, result |-> Some(result), issued |-> 0]

Calling(req, pc, quote, stmt) ==
    [pc |-> pc, method |-> req.method, rowid |-> req.rowid,
     body |-> BodyKind(req), quote |-> quote,
     stmt |-> Some(stmt), result |-> None, issued |-> 0]

\* serde_json::from_str::<Quote>(text)
FromStr(text) == IF text.valid THEN Some(text.quote) ELSE None

HandleGet(req) ==
    IF req.rowid # None THEN
        LET id == ParseI64(req.rowid[1])
        IN  IF id = None THEN Returned(req, Fatal("ParseIntError"))
            ELSE Calling(req, "execute", None, [op |-> "select_one", id |-> id[1]])
    ELSE Calling(req, "execute", None, [op |-> "select_all"])

HandlePost(req) ==
    IF req.body = None THEN Returned(req, Fatal("panic: unwrap on None"))
    ELSE LET q == FromStr(req.body[1])
         IN  IF q = None THEN Returned(req, Fatal("serde_json::Error"))
             ELSE Calling(req, "prepare", q, [op |-> "insert", quote |-> q[1]])

\* HandlePut, were the body read before the rowid parameter is looked at.
HandlePutBodyFirst(req) ==
    IF req.body = None THEN Returned(req, Fatal("panic: unwrap on None"))
    ELSE LET q == FromStr(req.body[1])
         IN  IF q = None THEN Returned(req, Fatal("serde_json::Error"))
             ELSE IF req.rowid = None
             THEN Returned(req, Response(400, BodyText(Plain("rowid is required"))))
             ELSE LET id == ParseI64(req.rowid[1])
                  IN  IF id = None THEN Returned(req, Fatal("ParseIntError"))
                      ELSE Calling(req, "prepare", q,
                             [op |-> "update_sql", sql |-> UpdateSql(id[1], q[1])])

HandlePut(req) ==
    IF req.rowid = None
    THEN Returned(req, Response(400, BodyText(Plain("rowid is required"))))
    ELSE LET id == ParseI64(req.rowid[1])
             q == FromStr(req.body[1])
         IN  IF id = None THEN Returned(req, Fatal("ParseIntError"))
             ELSE IF req.body = None
             THEN Returned(req, Fatal("panic: unwrap on None"))
             ELSE IF q = None THEN Returned(req, Fatal("serde_json::Error"))
             ELSE Calling(req, "prepare", q,
                          [op |-> "update_sql", sql |-> UpdateSql(id[1], q[1])])

\* HandleDelete, were a missing rowid parameter read as rowid 0.
HandleDeleteDefaultRowid(req) ==
    LET id == IF req.rowid = None THEN Some(0) ELSE ParseI64(req.rowid[1])
    IN  IF id = None THEN Returned(req, Fatal("ParseIntError"))
        ELSE Calling(req, "prepare", None, [op |-> "delete", id |-> id[1]])

HandleDelete(req) ==
    IF req.rowid = None
    THEN Returned(req, Response(400, BodyText(Plain("rowid is required"))))
    ELSE LET id == ParseI64(req.rowid[1])
         IN  IF id = None THEN Returned(req, Fatal("ParseIntError"))
             ELSE Calling(req, "prepare", None, [op |-> "delete", id |-> id[1]])

\* DeleteResponse, were a DELETE that affects no row answered as an error.
DeleteResponseChecked(affected) ==
    IF affected = 0 THEN Response(404, BodyText(Plain("Not Found")))
    ELSE Response(204, BodyEmpty)

\* The DELETE branch after delete_quote: the count is dropped (_res).
DeleteResponse(affected) == Response(204, BodyEmpty)

HandleOther(req) ==
    Returned(req, Response(405, BodyText(Plain("Method Not Allowed"))))

\* Dispatch, were the catch-all arm missing and GET the default.
DispatchDefaultGet(req) ==
    CASE req.method = "POST" -> HandlePost(req)
      [] req.method = "PUT" -> HandlePut(req)
      [] req.method = "DELETE" -> HandleDelete(req)
      [] OTHER -> HandleGet(req)

\* match method { ... }: the handler from its entry to its first call on
\* the client, or to its return when it makes none.
Dispatch(req) ==
    CASE req.method = "GET" -> HandleGet(req)
      [] req.method = "POST" -> HandlePost(req)
      [] req.method = "PUT" -> HandlePut(req)
      [] req.method = "DELETE" -> HandleDelete(req)
      [] OTHER -> HandleOther(req)

(* ------------------------------ actions -------------------------------- *)
\* The runtime hands request req to invocation i: the handler connects and
\* runs to its first call on the client.
Start(i, req) ==
    /\ inv[i].pc = "idle"
    /\ inv' = [inv EXCEPT ![i] = Dispatch(req)]
    /\ UNCHANGED <<table, nextId, posted, deleted, initial>>

\* client.prepare / prepare_typed: the server reads the statement text.
Prepare(i) ==
    /\ inv[i].pc = "prepare"
    /\ LET stmt == inv[i].stmt[1]
           parsed == ParseUpdate(stmt.sql)
       IN  inv' = [inv EXCEPT ![i] =
              IF stmt.op # "update_sql"
              THEN [@ EXCEPT !.pc = "execute", !.issued = @ + 1]
              ELSE IF parsed.ok
              THEN [@ EXCEPT !.pc = "execute", !.issued = @ + 1,
                             !.stmt = Some(parsed)]
              ELSE [@ EXCEPT !.pc = "done", !.issued = @ + 1, !.stmt = None,
                             !.result = Some(Fatal("db error: syntax error"))]]
    /\ UNCHANGED <<table, nextId, posted, deleted, initial>>

Finish(i, result) ==
    inv' = [inv EXCEPT ![i] = [@ EXCEPT !.pc = "done", !.issued = @ + 1,
                                        !.stmt = None,
                                        !.result = Some(result)]]

\* client.query / query_opt / execute: the statement runs and the handler
\* shapes its response.
Run(i) ==
    /\ inv[i].pc = "execute"
    /\ LET stmt == inv[i].stmt[1]
       IN  CASE stmt.op = "select_all" ->
                  /\ \E tie \in TieBreaks :
                        Finish(i, Response(200,
                                  BodyText(JsonOfVec(SelectAll(table, tie)))))
                  /\ UNCHANGED <<table, nextId>>
             [] stmt.op = "select_one" ->
                  /\ Finish(i, Response(200,
                               BodyText(JsonOfOption(SelectOne(table, stmt.id)))))
                  /\ UNCHANGED <<table, nextId>>
             [] stmt.op = "insert" ->
                  /\ table' = InsertRow(table, nextId, stmt.quote)
                  /\ nextId' = nextId + 1
                  /\ Finish(i, Response(201,
                               BodyText(JsonOfOption(SelectOne(table', nextId)))))
             [] stmt.op = "update" ->
                  /\ table' = UpdateRow(table, stmt)
                  /\ Finish(i, Response(200,
                               BodyText(JsonOfOption(SelectOne(table', stmt.id)))))
                  /\ UNCHANGED nextId
             [] stmt.op = "delete" ->
                  /\ table' = DeleteRow(table, stmt.id)
                  /\ Finish(i, DeleteResponse(DeleteCount(table, stmt.id)))
                  /\ UNCHANGED nextId

Execute(i) ==
    /\ Run(i)
    /\ UNCHANGED <<posted, deleted, initial>>

\* Execute, with the two histories kept: a POSTed payload is remembered
\* under its rowid until a PUT or DELETE runs on that rowid, and the
\* DELETEs completed on each rowid since it last held a row are counted
\* (up to two).
ExecuteTracked(i) ==
    /\ Run(i)
    /\ LET stmt == inv[i].stmt[1]
       IN  /\ posted' =
                IF stmt.op = "insert"
                THEN [k \in DOMAIN posted \cup {nextId} |->
                         IF k = nextId THEN stmt.quote ELSE posted[k]]
                ELSE IF stmt.op \in {"update", "delete"}
                THEN [k \in DOMAIN posted \ {stmt.id} |-> posted[k]]
                ELSE posted
           /\ deleted' =
                IF stmt.op = "delete"
                THEN [k \in DOMAIN deleted \cup {stmt.id} |->
                         IF k # stmt.id THEN deleted[k]
                         ELSE IF k \in DOMAIN deleted THEN 2 ELSE 1]
                ELSE IF stmt.op = "insert"
                THEN [k \in DOMAIN deleted \ {nextId} |-> deleted[k]]
                ELSE deleted
    /\ UNCHANGED initial

\* The runtime takes the handler's result; the slot serves the next request.
Return(i) ==
    /\ inv[i].pc = "done"
    /\ inv' = [inv EXCEPT ![i] = Idle]
    /\ UNCHANGED <<table, nextId, posted, deleted, initial>>

(* ------------------------------ inputs --------------------------------- *)
Opt(S) == {None} \cup {Some(v) : v \in S}

\* The supplied texts: one plain, one that is a single quote character.
Texts == {<<"a">>, <<"'">>}

Episodes == {1}

Stardates == {Dec(15, 1)}

Payloads(quotes, characters, stardates, episodes) ==
    {Quote(None, q, c, s, e) :
        q \in Opt(quotes), c \in Opt(characters),
        s \in Opt(stardates), e \in Opt(episodes)}

Malformed == [valid |-> FALSE]

JsonText(q) == [valid |-> TRUE, quote |-> q]

JsonBodies(payloads) == {Some(JsonText(q)) : q \in payloads}

Request(method, rowids, bodies) ==
    [method : {method}, rowid : rowids, body : bodies]

RowidsTo(n) == {Some(FmtInt(k)) : k \in 1..n}

\* Every method, with and without a rowid (a number or not), with no body,
\* a malformed one, and every payload.
Requests ==
    [method : {"GET", "POST", "PUT", "DELETE", "PATCH"},
     rowid : {None, Some(<<"x">>)} \cup RowidsTo(MaxId + 1),
     body : {None, Some(Malformed)}
            \cup JsonBodies(Payloads(Texts, {<<"'">>}, Stardates, Episodes))]

\* Rowids run out at the bound: no POST is taken that would pass it.
PostsInFlight ==
    Cardinality({i \in DOMAIN inv :
        inv[i].pc \in {"prepare", "execute"} /\ inv[i].method = "POST"})

Room(req, maxId) == req.method = "POST" => nextId + PostsInFlight <= maxId

(* --------------------------- specifications ---------------------------- *)
Empty == [k \in {} |-> None]

\* Spec: one invocation at a time, every request, from the empty table.
Init ==
    /\ table = Empty
    /\ nextId = 1
    /\ inv = [i \in 1..1 |-> Idle]
    /\ posted = Empty
    /\ deleted = Empty
    /\ initial = table

Next ==
    \/ \E i \in DOMAIN inv, req \in Requests : Room(req, MaxId) /\ Start(i, req)
    \/ \E i \in DOMAIN inv : Prepare(i)
    \/ \E i \in DOMAIN inv : Execute(i)
    \/ \E i \in DOMAIN inv : Return(i)

Spec == Init /\ [][Next]_vars

\* SpecHistory: one invocation at a time with the histories kept; the
\* requests are the ones that reach the storage.
HistoryRequests ==
    Request("GET", RowidsTo(MaxId + 1), {None})
    \cup Request("POST", {None},
                 JsonBodies(Payloads(Texts, Texts, Stardates, Episodes)))
    \cup Request("PUT", RowidsTo(MaxId + 1),
                 JsonBodies(Payloads(Texts, {}, {}, Episodes)))
    \cup Request("DELETE", RowidsTo(MaxId + 1), {None})

NextHistory ==
    \/ \E i \in DOMAIN inv, req \in HistoryRequests :
          Room(req, MaxId) /\ Start(i, req)
    \/ \E i \in DOMAIN inv : Prepare(i)
    \/ \E i \in DOMAIN inv : ExecuteTracked(i)
    \/ \E i \in DOMAIN inv : Return(i)

SpecHistory == Init /\ [][NextHistory]_vars

\* SpecConc: two invocations at once, both PUTs on the one row of the table.
ConcRows ==
    {[c \in Columns |-> None],
     [quote |-> Some(<<"a", "a">>), characters |-> Some(<<"a", "a">>),
      stardate |-> Some(Dec(20, 1)), episode |-> Some(0)]}

InitConc ==
    /\ table \in {[k \in {1} |-> row] : row \in ConcRows}
    /\ nextId = 2
    /\ inv = [i \in 1..2 |-> Idle]
    /\ posted = Empty
    /\ deleted = Empty
    /\ initial = table

ConcRequests ==
    Request("PUT", RowidsTo(1),
            JsonBodies(Payloads(Texts, Texts, Stardates, Episodes)))

NextConc ==
    \/ \E i \in DOMAIN inv, req \in ConcRequests : Start(i, req)
    \/ \E i \in DOMAIN inv : Prepare(i)
    \/ \E i \in DOMAIN inv : Execute(i)

SpecConc == InitConc /\ [][NextConc]_vars

\* SpecList: one invocation at a time on a table of about Limit rows.
ListMaxRows == Limit + ListExtra

ListEpisode(k, shift) ==
    LET e == (k + shift) % (ListMaxEpisode + 1)
    IN  IF e = 0 THEN None ELSE Some(e)

InitList ==
    /\ \E n \in (Limit - 1)..ListMaxRows, shift \in 0..ListMaxEpisode :
          /\ table = [k \in 1..n |->
                        [quote |-> None, characters |-> None, stardate |-> None,
                         episode |-> ListEpisode(k, shift)]]
          /\ nextId = n + 1
    /\ inv = [i \in 1..1 |-> Idle]
    /\ posted = Empty
    /\ deleted = Empty
    /\ initial = table

ListRequests ==
    Request("GET", {None, Some(<<"1">>)}, {None})
    \cup Request("POST", {None},
                 JsonBodies(Payloads({}, {}, {}, 1..ListMaxEpisode)))
    \cup Request("PUT", RowidsTo(1),
                 JsonBodies(Payloads({}, {}, {}, 1..ListMaxEpisode)))
    \cup Request("DELETE", RowidsTo(2), {None})

NextList ==
    \/ \E i \in DOMAIN inv, req \in ListRequests :
          Room(req, ListMaxRows) /\ Start(i, req)
    \/ \E i \in DOMAIN inv : Prepare(i)
    \/ \E i \in DOMAIN inv : Execute(i)
    \/ \E i \in DOMAIN inv : Return(i)

SpecList == InitList /\ [][NextList]_vars

(* ------------------------------ claims --------------------------------- *)
ParsedRowid(i) == ParseI64(inv[i].rowid[1])

Starts(i) == inv[i].pc = "idle" /\ inv'[i].pc # "idle"

Finishes(i) == inv[i].pc \in {"prepare", "execute"} /\ inv'[i].pc = "done"

RowidRequired == Response(400, BodyText(Plain("rowid is required")))

Merged(row, q) == [c \in Columns |-> IF q[c] # None THEN q[c] ELSE row[c]]

\* C3 (as claimed): a PUT on rowid r with a payload supplying the fields S
\* leaves record r with exactly the fields of S set to the supplied values,
\* and every other field and every other record as they were, for every
\* supplied text, a text holding a single quote included.
C3_PutSetsExactlySupplied ==
    [][\A i \in DOMAIN inv :
         (Finishes(i) /\ inv[i].method = "PUT" /\ ParsedRowid(i)[1] \in DOMAIN table)
         => table' = [table EXCEPT ![ParsedRowid(i)[1]] =
                          Merged(table[ParsedRowid(i)[1]], inv[i].quote[1])]]_vars

\* C4: a POST of payload P returns 201 and the stored record under a rowid
\* the table did not hold, and a GET of that rowid, while no PUT or DELETE
\* has run on it, returns 200 and a record equal to P in every field P
\* supplied.
Agrees(p, o) == \A c \in Columns : p[c] # None => o[c] = p[c]

IsRecordOf(result, status, id) ==
    /\ result # None /\ result[1].kind = "Ok" /\ result[1].status = status
    /\ result[1].body.t = "Text" /\ result[1].body.s.json = "object"
    /\ result[1].body.s.v.rowid = Some(FmtInt(id))

IsListOf(result, tbl) ==
    /\ result # None /\ result[1].kind = "Ok" /\ result[1].status = 200
    /\ result[1].body.t = "Text" /\ result[1].body.s.json = "array"
    /\ LET v == result[1].body.s.v
       IN  /\ Len(v) <= Limit
           /\ \A k \in 1..Len(v) :
                 \E id \in DOMAIN tbl : v[k] = QuoteJson(QuoteOfRow(id, tbl[id]))
           /\ \A k \in 1..(Len(v) - 1) :
                 ~EpisodeBefore(v[k + 1].episode, v[k].episode)

C5_ListIsBoundedAndOrdered ==
    [][\A i \in DOMAIN inv :
         (Finishes(i) /\ inv[i].stmt[1].op = "select_all")
         => IsListOf(inv'[i].result, table)]_vars

C5_Witness ==
    \E i \in DOMAIN inv :
        /\ inv[i].pc = "done" /\ inv[i].method = "GET" /\ inv[i].rowid = None
        /\ IsListOf(inv[i].result, table)
        /\ Len(inv[i].result[1].body.s.v) = Limit
        /\ Cardinality(DOMAIN table) > Limit
        /\ inv[i].result[1].body.s.v[1].episode = None
        /\ inv[i].result[1].body.s.v[Limit].episode # None

\* C6: once a DELETE of rowid r has returned 204, a further DELETE of r also
\* returns 204 with an empty body and leaves the table as the first left
\* it, and a GET of r returns 200 with JSON null.
C6_DeleteTwice ==
    [][\A i \in DOMAIN inv :
         /\ (Finishes(i) /\ inv[i].stmt[1].op = "delete")
            => /\ inv'[i].result = Some(Response(204, BodyEmpty))
               /\ inv[i].stmt[1].id \notin DOMAIN table'
               /\ inv[i].stmt[1].id \in DOMAIN deleted => table' = table
         /\ (Finishes(i) /\ inv[i].stmt[1].op = "select_one"
               /\ inv[i].stmt[1].id \in DOMAIN deleted)
            => inv'[i].result =
                  Some(Response(200, BodyText([json |-> "null"])))]_vars

C6_Witness ==
    \E i \in DOMAIN inv :
        /\ inv[i].pc = "done" /\ inv[i].method = "DELETE"
        /\ inv[i].result = Some(Response(204, BodyEmpty))
        /\ ParsedRowid(i)[1] \in DOMAIN deleted
        /\ deleted[ParsedRowid(i)[1]] = 2
        /\ ParsedRowid(i)[1] < nextId

\* The requests that carry a client input error: no rowid on PUT or DELETE,
\* a rowid that is no integer on GET, PUT or DELETE, no body or a malformed
\* one on POST or PUT.
BadRowid(i) ==
    inv[i].method \in {"GET", "PUT", "DELETE"}
    /\ inv[i].rowid # None /\ ParsedRowid(i) = None

ClientInputError(i) ==
    \/ inv[i].method \in {"PUT", "DELETE"} /\ inv[i].rowid = None
    \/ BadRowid(i)
    \/ inv[i].method = "POST" /\ inv[i].body # "json"
    \/ inv[i].method = "PUT" /\ inv[i].rowid # None /\ inv[i].body # "json"

\* C7 (as claimed): every invocation with a client input error ends with a
\* 400-class response carrying a plain-text reason, never with a fatal abort.
C7_InputErrorsAre400 ==
    \A i \in DOMAIN inv :
        (inv[i].pc = "done" /\ ClientInputError(i))
        => /\ inv[i].result[1].kind = "Ok"
           /\ inv[i].result[1].status \in 400..499
           /\ inv[i].result[1].body.t = "Text"

\* C8 (as claimed): a PUT whose rowid is an integer and whose body is a
\* Quote's JSON returns 200 for every set of supplied fields, the empty set
\* included, with the updated Quote's JSON when a row matched and an empty
\* body and an unchanged table when none did.
C8_PutReturns200 ==
    [][\A i \in DOMAIN inv :
         (Finishes(i) /\ inv[i].method = "PUT")
         => /\ inv'[i].result[1].kind = "Ok"
            /\ inv'[i].result[1].status = 200
            /\ IF ParsedRowid(i)[1] \in DOMAIN table
               THEN inv'[i].result[1].body =
                       BodyText(JsonOfOption(SelectOne(table', ParsedRowid(i)[1])))
               ELSE inv'[i].result[1].body = BodyEmpty /\ table' = table]_vars

\* C9: an invocation that aborts on bad client input (a rowid that is no
\* integer, no body or a malformed one) has made no call on the client, and
\* the table is as it was; a PUT reads the rowid before the body, and both
\* before it builds its UPDATE.
InputErrors == {"ParseIntError", "serde_json::Error", "panic: unwrap on None"}

C9_InputAbortsTouchNothing ==
    [][\A i \in DOMAIN inv :
         /\ (inv[i].result = None /\ inv'[i].result # None
               /\ inv'[i].result[1].kind = "Err"
               /\ inv'[i].result[1].err \in InputErrors)
            => /\ Starts(i)
               /\ inv'[i].issued = 0 /\ inv'[i].stmt = None
               /\ table' = table /\ nextId' = nextId
         /\ (Starts(i) /\ inv'[i].rowid # None
               /\ inv'[i].method \in {"GET", "PUT", "DELETE"}
               /\ ParseI64(inv'[i].rowid[1]) = None)
            => inv'[i].result = Some(Fatal("ParseIntError"))
         /\ (Starts(i) /\ inv'[i].method \in {"POST", "PUT"}
               /\ (inv'[i].method = "PUT" =>
                      inv'[i].rowid # None /\ ParseI64(inv'[i].rowid[1]) # None)
               /\ inv'[i].body # "json")
            => /\ inv'[i].result # None /\ inv'[i].result[1].kind = "Err"
               /\ inv'[i].result[1].err \in InputErrors \ {"ParseIntError"}
         /\ (Starts(i) /\ inv'[i].method = "PUT" /\ inv'[i].stmt # None)
            => /\ ParseI64(inv'[i].rowid[1]) # None
               /\ inv'[i].body = "json" /\ inv'[i].quote # None]_vars

C9_Witness ==
    \E i \in DOMAIN inv :
        /\ inv[i].pc = "done" /\ inv[i].method = "PUT"
        /\ BadRowid(i) /\ inv[i].body = "malformed"
        /\ inv[i].result = Some(Fatal("ParseIntError"))
        /\ inv[i].issued = 0
        /\ DOMAIN table # {}

\* C10 (as claimed): when two invocations run at once as PUTs on the same
\* existing rowid with disjoint sets of supplied fields, then under every
\* interleaving the final record carries the supplied values of both and
\* no other field has changed.
Supplied(q) == {c \in Columns : q[c] # None}

C10_NoLostUpdate ==
    \A i, j \in DOMAIN inv :
        (/\ i # j
         /\ inv[i].pc = "done" /\ inv[j].pc = "done"
         /\ inv[i].method = "PUT" /\ inv[j].method = "PUT"
         /\ inv[i].quote # None /\ inv[j].quote # None
         /\ ParsedRowid(i) = ParsedRowid(j)
         /\ ParsedRowid(i)[1] \in DOMAIN initial
         /\ Supplied(inv[i].quote[1]) \cap Supplied(inv[j].quote[1]) = {})
        => table[ParsedRowid(i)[1]] =
              Merged(Merged(initial[ParsedRowid(i)[1]], inv[i].quote[1]),
                     inv[j].quote[1])

====
